---- MODULE Spec2Model ----
(***************************************************************************)
(* A model of scafflater's option resolution (ScafflaterOptions and the    *)
(* older ConfigProvider), of the processors pipeline and of                *)
(* Scafflater.init / Scafflater.runPartial.                                *)
(*                                                                         *)
(* A text body is a sequence of lines; the offset of a line is its index.  *)
(* An options object is a function from option names to values, and the    *)
(* objects live in a heap so that "a new object is returned" and "the      *)
(* receiver is left alone" are statements about the state.                 *)
(***************************************************************************)
EXTENDS Naturals, Sequences, FiniteSets

VARIABLES
  heap,          \* the options/config objects allocated so far, by reference
  loggerLevel,   \* the level of the logger singleton all options share
  optPc,         \* where the option resolution of one file stands
  overrides,     \* the object given to the ScafflaterOptions constructor
  optionsRef,    \* the object the constructor produced
  folderFile,    \* the scafflater.jsonc found in the folder
  folderRef,     \* the object getFolderOptions returned
  body,          \* the file content given to getFileOptions / stripConfig
  outcome,       \* what getFileOptions ended in
  stripped,      \* what stripConfig returned
  processors,    \* runProcessorsPipeline's list of processors
  context,       \* the context the caller gave
  rawInput,      \* the input the caller gave
  pipePc,        \* idle, running, returned or threw
  stage,         \* the position of the loop in the list
  generationContext, \* the loop's context
  input,         \* the loop's text
  calls,         \* what each call of process was given, in call order
  returned,      \* the text runProcessorsPipeline returned
  manifest,      \* the scafflater file at the target root
  pc,            \* where each caller's init / runPartial stands
  args,          \* the partial path and parameters of each caller's call
  scfConfig,     \* each call's copy of the manifest, as it read it
  filesDone,     \* how many files of the unit each call's generator wrote
  generateCalled,\* whether each call invoked Generator.generate
  snapshot,      \* the manifest when each caller's runPartial was entered
  applied,       \* the records of the calls that completed, in order
  initialised,   \* whether init wrote the manifest
  started        \* the number of calls made

optVars == <<heap, loggerLevel, optPc, overrides, optionsRef, folderFile,
             folderRef, body, outcome, stripped>>

pipeVars == <<processors, context, rawInput, pipePc, stage, generationContext,
              input, calls, returned>>

runVars == <<manifest, pc, args, scfConfig, filesDone, generateCalled, snapshot,
             applied, initialised, started>>

vars == <<optVars, pipeVars, runVars>>

(***************************************************************************)
(* Bounds                                                                  *)
(***************************************************************************)
MaxLines == 3
MaxProcessors == 3
MaxCalls == 3
FilesPerUnit == 2
NumCallers == 2

(***************************************************************************)
(* Objects                                                                 *)
(***************************************************************************)
EmptyObj == [k \in {} |-> ""]

\* {...a, ...b}
Spread(a, b) ==
  [k \in DOMAIN a \cup DOMAIN b |-> IF k \in DOMAIN b THEN b[k] ELSE a[k]]

\* The class fields of ScafflaterOptions, as initialised before the
\* constructor body runs.
Defaults ==
  [appendStrategy |-> "append", mode |-> "prod", optionMarker |-> "@scf-option",
   scfFileName |-> "scafflater.jsonc", logger |-> "logger"]

\* Objects a caller hands to the constructor.
Overrides ==
  { EmptyObj,
    [appendStrategy |-> "replace"],
    [mode |-> "debug"],
    [appendStrategy |-> "replace", mode |-> "debug"] }

\* The field values after new ScafflaterOptions(options).
NewOptions(options) == Spread(Defaults, options)

\* The logger level after new ScafflaterOptions(options): the constructor
\* sets the level of the logger the new object refers to.
LevelAfterNew(options, level) ==
  IF NewOptions(options)["mode"] = "debug" /\ NewOptions(options)["logger"] = "logger"
  THEN "debug" ELSE level

(***************************************************************************)
(* Folder files                                                            *)
(***************************************************************************)
NoFile == [exists |-> FALSE, parses |-> FALSE, hasOptions |-> FALSE, options |-> EmptyObj]

FolderFile(hasOptions, options) ==
  [exists |-> TRUE, parses |-> TRUE, hasOptions |-> hasOptions, options |-> options]

FolderLayers ==
  { EmptyObj,
    [appendStrategy |-> "ignore"],
    [mode |-> "debug"],
    [appendStrategy |-> "append", mode |-> "prod"] }

FolderFiles ==
  { NoFile,
    [exists |-> TRUE, parses |-> FALSE, hasOptions |-> FALSE, options |-> EmptyObj],
    FolderFile(FALSE, EmptyObj) }
  \cup { FolderFile(TRUE, o) : o \in FolderLayers }

\* A variant with the spread the other way round: { ...info.options, ...result }.
FolderMergeWrongOrder(this, file) ==
  IF file.exists /\ file.hasOptions THEN Spread(file.options, this) ELSE this

\* Lines 160-175 of getFolderOptions: the object handed to the constructor.
FolderMerge(this, file) ==
  IF file.exists /\ file.hasOptions THEN Spread(this, file.options) ELSE this

(***************************************************************************)
(* Bodies                                                                  *)
(***************************************************************************)
\* A directive's text after the marker:
\*   json       {"k":"v"} on one line
\*   multiline  {"k":   then a line break, then   "v"}
\*   invalid    {bad: json}
\*   empty      {}
\*   unclosed   {bad json
TextLine  == [kind |-> "text",  form |-> "none", obj |-> EmptyObj]
StartLine == [kind |-> "start", form |-> "none", obj |-> EmptyObj]
EndLine   == [kind |-> "end",   form |-> "none", obj |-> EmptyObj]
Option(form, obj) == [kind |-> "option", form |-> form, obj |-> obj]

OptionLines ==
  { Option("json", [appendStrategy |-> "appendIfExists"]),
    Option("json", [mode |-> "debug"]),
    Option("multiline", [appendStrategy |-> "replace"]),
    Option("invalid", EmptyObj),
    Option("empty", EmptyObj),
    Option("unclosed", EmptyObj) }

Lines == {TextLine, StartLine, EndLine} \cup OptionLines

Bodies == UNION { [1..n -> Lines] : n \in 0..MaxLines }

(***************************************************************************)
(* Region scanner (RegionProvider.getRegions)                              *)
(***************************************************************************)
Region(s, e) ==
  [startLine |-> s, endLine |-> e, contentStart |-> s + 1, contentEnd |-> e]

\* Markers are matched in textual order, the first start with the first end
\* after it; a start with no end before the next start or the end of the
\* text is malformed. open is the line of the start marker waiting for its
\* end, or 0.
RECURSIVE RegionsFrom(_, _, _)
RegionsFrom(str, i, open) ==
  IF i > Len(str) THEN [error |-> open # 0, regions |-> <<>>]
  ELSE IF str[i].kind = "start"
    THEN IF open # 0 THEN [error |-> TRUE, regions |-> <<>>]
         ELSE RegionsFrom(str, i + 1, i)
  ELSE IF str[i].kind = "end" /\ open # 0
    THEN LET rest == RegionsFrom(str, i + 1, 0)
         IN  [error |-> rest.error, regions |-> <<Region(open, i)>> \o rest.regions]
  ELSE RegionsFrom(str, i + 1, open)

getRegions(str) == RegionsFrom(str, 1, 0)

(***************************************************************************)
(* getConfigFromString and stripConfig                                     *)
(***************************************************************************)
\* .*@scf-option\s*(?<json>{.*:({.*}|".*"|[^}])*?}).*   flags gi
\* The payload needs a brace, a colon on the brace's line and a closing
\* brace; [^}] lets it run over line breaks.
MatchesConfigRegex(line) ==
  line.kind = "option" /\ line.form \in {"json", "multiline", "invalid"}

\* .*@scf-option\s*(?<json>{.*}).*\n?   flags gi
\* The payload's braces must both be on one line.
MatchesStripRegex(line) ==
  line.kind = "option" /\ line.form \in {"json", "invalid", "empty"}

JSONparse(line) ==
  IF line.form \in {"json", "multiline"}
  THEN [ok |-> TRUE, value |-> line.obj]
  ELSE [ok |-> FALSE, value |-> EmptyObj]

\* A variant that leaves out the test for regions.
InRegionNever(regions, index) == FALSE

\* regions.findIndex(r => r.contentStart <= c.index && r.contentEnd >= c.index) >= 0
InRegion(regions, index) ==
  \E n \in DOMAIN regions :
    regions[n].contentStart <= index /\ regions[n].contentEnd >= index

NoError == [name |-> "none", option |-> "none", file |-> "none"]

\* new Error(`Could not parse option '${c.groups.name}'`): the regular
\* expression has no group called name, and the text holds no file.
ParseError == [name |-> "Error", option |-> "undefined", file |-> "none"]

\* The loop over the matches, from line i on.
RECURSIVE MergeConfigs(_, _, _, _)
MergeConfigs(newConfig, str, regions, i) ==
  IF i > Len(str) THEN [threw |-> FALSE, error |-> NoError, config |-> newConfig]
  ELSE IF ~MatchesConfigRegex(str[i]) THEN MergeConfigs(newConfig, str, regions, i + 1)
  ELSE IF InRegion(regions, i) THEN MergeConfigs(newConfig, str, regions, i + 1)
  ELSE IF ~JSONparse(str[i]).ok
    THEN [threw |-> TRUE, error |-> ParseError, config |-> newConfig]
  ELSE MergeConfigs(Spread(newConfig, JSONparse(str[i]).value), str, regions, i + 1)

\* What getConfigFromString hands to the constructor, or what it throws.
getConfigFromString(this, str) ==
  IF getRegions(str).error
  THEN [threw |-> TRUE,
        error |-> [name |-> "MalformedRegionError", option |-> "none", file |-> "none"],
        config |-> this]
  ELSE MergeConfigs(this, str, getRegions(str).regions, 1)

\* str.replace(configRegex, "")
stripConfig(str) == SelectSeq(str, LAMBDA line : ~MatchesStripRegex(line))

(***************************************************************************)
(* ConfigProvider                                                          *)
(***************************************************************************)
ConfigDefaults ==
  [singleLineComment |-> "#", configMarker |-> "@scf-config", annotate |-> "true",
   scfFileName |-> "_scf.json"]

ConfigLayers == { EmptyObj, [annotate |-> "false"], [singleLineComment |-> "//"] }

ConfigFiles ==
  { NoFile, FolderFile(FALSE, EmptyObj) } \cup { FolderFile(TRUE, o) : o \in ConfigLayers }

\* file.options stands for info.config here.
mergeFolderConfig(file, config) ==
  IF file.exists /\ file.hasOptions THEN Spread(config, file.options) ELSE config

\* A line `# @scf-config <name> <value>`: obj holds the name and the text of
\* the value, form tells whether the text is JSON.
ConfigLine(form, obj) == [kind |-> "config", form |-> form, obj |-> obj]

BlankLine == [kind |-> "text", form |-> "blank", obj |-> EmptyObj]

ConfigFileLines ==
  { TextLine,
    ConfigLine("json", [processors |-> "[p]"]),
    ConfigLine("invalid", [processors |-> "[p"]),
    ConfigLine("plain", [annotate |-> "1"]),
    ConfigLine("plain", [annotate |-> "no"]),
    ConfigLine("plain", [singleLineComment |-> "//"]) }

ConfigBodies == UNION { [1..n -> ConfigFileLines] : n \in 0..MaxLines }

\* The name group of a match.
NameOf(line) == CHOOSE k \in DOMAIN line.obj : TRUE

\* The switch on c.groups.name: the entry a match adds to newConfig.
ConfigEntry(line) ==
  IF NameOf(line) \in {"processors", "appenders"} THEN line.obj
  ELSE IF NameOf(line) = "annotate"
    THEN [annotate |-> IF line.obj["annotate"] \in {"1", "true"} THEN "true" ELSE "false"]
  ELSE line.obj

\* The loop over the matches, from line i on.
RECURSIVE ExtractFrom(_, _, _)
ExtractFrom(newConfig, str, i) ==
  IF i > Len(str) THEN [threw |-> FALSE, error |-> NoError, config |-> newConfig]
  ELSE IF str[i].kind # "config" THEN ExtractFrom(newConfig, str, i + 1)
  ELSE IF NameOf(str[i]) \in {"processors", "appenders"} /\ str[i].form # "json"
    THEN [threw |-> TRUE,
          error |-> [name |-> "Error", option |-> NameOf(str[i]), file |-> "filePath"],
          config |-> newConfig]
  ELSE ExtractFrom(Spread(newConfig, ConfigEntry(str[i])), str, i + 1)

\* ConfigProvider.extractConfigFromFileContent(filePath, config), the file
\* holding str: the text of each match is replaced by nothing, its line break
\* stays.
extractConfigFromFileContent(str, config) ==
  LET r == ExtractFrom(EmptyObj, str, 1)
  IN  [threw |-> r.threw, error |-> r.error,
       config |-> Spread(config, r.config),
       fileContent |-> [i \in DOMAIN str |->
                          IF str[i].kind = "config" THEN BlankLine ELSE str[i]]]

(***************************************************************************)
(* The heap                                                                *)
(***************************************************************************)
\* A variant that also assigns the result's fields to the receiver.
AllocInPlace(h, this, obj) == Append([h EXCEPT ![this] = obj], obj)

\* The returned object is a new one; the receiver `this` is not assigned.
Alloc(h, this, obj) == Append(h, obj)

NoOutcome == [status |-> "none", ref |-> 0, error |-> NoError]

(***************************************************************************)
(* Option resolution of one file                                           *)
(***************************************************************************)
OptInit ==
  /\ heap = <<>>
  /\ loggerLevel = "info"
  /\ optPc = "new"
  /\ overrides = EmptyObj
  /\ optionsRef = 0
  /\ folderFile = NoFile
  /\ folderRef = 0
  /\ body = <<>>
  /\ outcome = NoOutcome
  /\ stripped = <<>>

\* new ScafflaterOptions(options)
Construct ==
  /\ optPc = "new"
  /\ \E o \in Overrides :
       /\ overrides' = o
       /\ heap' = Append(heap, NewOptions(o))
       /\ loggerLevel' = LevelAfterNew(o, loggerLevel)
  /\ optionsRef' = Len(heap')
  /\ optPc' = "constructed"
  /\ UNCHANGED <<folderFile, folderRef, body, outcome, stripped>>
  /\ UNCHANGED <<pipeVars, runVars>>

\* options.getFolderOptions(folderPath, context)
GetFolderOptions ==
  /\ optPc = "constructed"
  /\ \E f \in FolderFiles :
       /\ folderFile' = f
       /\ IF f.exists /\ ~f.parses
          THEN \* readJSON rejects
               /\ optPc' = "failed"
               /\ UNCHANGED <<heap, loggerLevel, folderRef>>
          ELSE /\ heap' = Alloc(heap, optionsRef, NewOptions(FolderMerge(heap[optionsRef], f)))
               /\ loggerLevel' = LevelAfterNew(FolderMerge(heap[optionsRef], f), loggerLevel)
               /\ folderRef' = Len(heap')
               /\ optPc' = "folder"
  /\ UNCHANGED <<overrides, optionsRef, body, outcome, stripped>>
  /\ UNCHANGED <<pipeVars, runVars>>

\* options.getFileOptions(filePath, context), the file holding b
GetFileOptions ==
  /\ optPc = "folder"
  /\ \E b \in Bodies :
       /\ body' = b
       /\ LET r == getConfigFromString(heap[folderRef], b)
          IN  IF r.threw
              THEN /\ outcome' = [status |-> "error", ref |-> 0, error |-> r.error]
                   /\ optPc' = "failed"
                   /\ UNCHANGED <<heap, loggerLevel>>
              ELSE /\ heap' = Alloc(heap, folderRef, NewOptions(r.config))
                   /\ loggerLevel' = LevelAfterNew(r.config, loggerLevel)
                   /\ outcome' = [status |-> "ok", ref |-> Len(heap'), error |-> NoError]
                   /\ optPc' = "file"
  /\ UNCHANGED <<overrides, optionsRef, folderFile, folderRef, stripped>>
  /\ UNCHANGED <<pipeVars, runVars>>

\* options.stripConfig(b)
StripConfig ==
  /\ optPc = "folder"
  /\ \E b \in Bodies :
       /\ body' = b
       /\ stripped' = stripConfig(b)
  /\ optPc' = "stripped"
  /\ UNCHANGED <<heap, loggerLevel, overrides, optionsRef, folderFile, folderRef, outcome>>
  /\ UNCHANGED <<pipeVars, runVars>>

\* new ConfigProvider()
NewConfigProvider ==
  /\ optPc = "new"
  /\ heap' = Append(heap, ConfigDefaults)
  /\ optionsRef' = Len(heap')
  /\ optPc' = "config"
  /\ UNCHANGED <<loggerLevel, overrides, folderFile, folderRef, body, outcome, stripped>>
  /\ UNCHANGED <<pipeVars, runVars>>

\* ConfigProvider.mergeFolderConfig(folderPath, config)
MergeFolderConfig ==
  /\ optPc = "config"
  /\ \E f \in ConfigFiles :
       /\ folderFile' = f
       /\ heap' = Alloc(heap, optionsRef, mergeFolderConfig(f, heap[optionsRef]))
  /\ folderRef' = Len(heap')
  /\ optPc' = "merged"
  /\ UNCHANGED <<loggerLevel, overrides, optionsRef, body, outcome, stripped>>
  /\ UNCHANGED <<pipeVars, runVars>>

\* ConfigProvider.extractConfigFromFileContent(filePath, config)
ExtractConfigFromFileContent ==
  /\ optPc = "config"
  /\ \E b \in ConfigBodies :
       /\ body' = b
       /\ LET r == extractConfigFromFileContent(b, heap[optionsRef])
          IN  IF r.threw
              THEN /\ outcome' = [status |-> "error", ref |-> 0, error |-> r.error]
                   /\ optPc' = "failed"
                   /\ UNCHANGED <<heap, stripped>>
              ELSE /\ heap' = Alloc(heap, optionsRef, r.config)
                   /\ outcome' = [status |-> "ok", ref |-> Len(heap'), error |-> NoError]
                   /\ stripped' = r.fileContent
                   /\ optPc' = "extracted"
  /\ UNCHANGED <<loggerLevel, overrides, optionsRef, folderFile, folderRef>>
  /\ UNCHANGED <<pipeVars, runVars>>

OptNext ==
  \/ Construct
  \/ GetFolderOptions
  \/ GetFileOptions
  \/ StripConfig
  \/ NewConfigProvider
  \/ MergeFolderConfig
  \/ ExtractConfigFromFileContent

(***************************************************************************)
(* Processors pipeline                                                     *)
(***************************************************************************)
\* A text is a sequence of characters.
Whitespace == {" ", "\n"}

RECURSIVE trimStart(_)
trimStart(s) == IF s # <<>> /\ Head(s) \in Whitespace THEN trimStart(Tail(s)) ELSE s

RECURSIVE trimEnd(_)
trimEnd(s) ==
  IF s # <<>> /\ s[Len(s)] \in Whitespace THEN trimEnd(SubSeq(s, 1, Len(s) - 1)) ELSE s

\* String.prototype.trim
trim(s) == trimEnd(trimStart(s))

\* The processors given to the pipeline. base is Processor itself; the
\* others stand for subclasses that override process:
\*   pad     returns the text with white space around it
\*   rename  changes the context's target name and appends to the text
\*   echo    appends to the text when the target name was changed
\*   fail    throws
ProcessorKinds == {"base", "pad", "rename", "echo", "fail"}

ProcessorLists == UNION { [1..n -> ProcessorKinds] : n \in 0..MaxProcessors }

Contexts == { [targetName |-> "target"], [targetName |-> "renamed"] }

Inputs == { <<>>, <<"x">>, <<" ", "x", "\n">> }

\* processor.process(context, input)
process(kind, ctx, text) ==
  CASE kind = "base"   -> [threw |-> FALSE, context |-> ctx, result |-> text]
    [] kind = "pad"    -> [threw |-> FALSE, context |-> ctx,
                           result |-> <<" ">> \o text \o <<"\n">>]
    [] kind = "rename" -> [threw |-> FALSE,
                           context |-> [ctx EXCEPT !.targetName = "renamed"],
                           result |-> text \o <<"x">>]
    [] kind = "echo"   -> [threw |-> FALSE, context |-> ctx,
                           result |-> IF ctx.targetName = "renamed"
                                      THEN text \o <<"y">> ELSE text]
    [] kind = "fail"   -> [threw |-> TRUE, context |-> ctx, result |-> text]

\* A variant without the trim.
NextInputUntrimmed(processorResult) == processorResult.result

\* input = processorResult.result.trim()
NextInput(processorResult) == trim(processorResult.result)

\* generationContext = processorResult.context
NextContext(processorResult) == processorResult.context

PipeInit ==
  /\ processors = <<>>
  /\ context = [targetName |-> "target"]
  /\ rawInput = <<>>
  /\ pipePc = "idle"
  /\ stage = 0
  /\ generationContext = [targetName |-> "target"]
  /\ input = <<>>
  /\ calls = <<>>
  /\ returned = <<>>

\* Processor.runProcessorsPipeline(processors, context, input) is called:
\* let generationContext = { ...context }
CallPipeline ==
  /\ pipePc = "idle"
  /\ \E ps \in ProcessorLists, c \in Contexts, t \in Inputs :
       /\ processors' = ps
       /\ context' = c
       /\ rawInput' = t
       /\ generationContext' = c
       /\ input' = t
  /\ stage' = 1
  /\ pipePc' = "running"
  /\ UNCHANGED <<calls, returned>>
  /\ UNCHANGED <<optVars, runVars>>

\* One turn of the loop over the processors.
ProcessStage ==
  /\ pipePc = "running"
  /\ stage <= Len(processors)
  /\ calls' = Append(calls, [index |-> stage, kind |-> processors[stage],
                             context |-> generationContext, input |-> input])
  /\ LET processorResult == process(processors[stage], generationContext, input)
     IN  IF processorResult.threw
         THEN /\ pipePc' = "threw"
              /\ UNCHANGED <<stage, generationContext, input>>
         ELSE /\ generationContext' = NextContext(processorResult)
              /\ input' = NextInput(processorResult)
              /\ stage' = stage + 1
              /\ pipePc' = "running"
  /\ UNCHANGED <<processors, context, rawInput, returned>>
  /\ UNCHANGED <<optVars, runVars>>

\* return input
ReturnPipeline ==
  /\ pipePc = "running"
  /\ stage > Len(processors)
  /\ returned' = input
  /\ pipePc' = "returned"
  /\ UNCHANGED <<processors, context, rawInput, stage, generationContext, input, calls>>
  /\ UNCHANGED <<optVars, runVars>>

PipeNext ==
  \/ CallPipeline
  \/ ProcessStage
  \/ ReturnPipeline

(***************************************************************************)
(* Scafflater.init and Scafflater.runPartial                               *)
(***************************************************************************)
Callers == 1..NumCallers

\* The manifest as a file: absent, unparsable, or a JSON document. A
\* document may lack the template entry or the partials list.
ManifestFile(state, template, hasPartials, partials) ==
  [state |-> state, template |-> template, hasPartials |-> hasPartials,
   partials |-> partials]

NoManifest == ManifestFile("absent", "none", FALSE, <<>>)

\* fsUtil.writeJSONSync(path, doc): the file then holds the document.
writeJSONSync(doc) == ManifestFile("ok", doc.template, doc.hasPartials, doc.partials)

\* fsUtil.readJsonSync(path): the document, or a throw.
readJsonSync(file) == [threw |-> file.state # "ok", doc |-> file]

Parameters == {"p1", "p2"}

\* What a caller applies with runPartial.
Units == { [partialPath |-> "a", parameters |-> "p1"],
           [partialPath |-> "b", parameters |-> "p2"] }

NoArgs == [partialPath |-> "none", parameters |-> "none"]

\* { path: `${scfConfig.template.name}/${partialPath}`, parameters }
Record(templateName, a) ==
  [path |-> <<templateName, a.partialPath>>, parameters |-> a.parameters]

InitialManifests ==
  { NoManifest,
    ManifestFile("corrupt", "none", FALSE, <<>>),
    ManifestFile("ok", "none", FALSE, <<>>),
    ManifestFile("ok", "t", FALSE, <<>>),
    ManifestFile("ok", "t", TRUE, <<>>),
    ManifestFile("ok", "t", TRUE, <<Record("t", [partialPath |-> "b", parameters |-> "p1"])>>) }

\* A variant that goes on whatever the read gave.
AfterReadLenient(read) == "read"

\* Line 42: the call goes on when the manifest was read, and is rejected
\* when readJsonSync threw.
AfterRead(read) == IF read.threw THEN "failed" ELSE "read"

\* A variant without the await: the lines after generate run at once.
GenerateResolvedEarly(done) == TRUE

\* Line 59: the lines after `await generate` run when the generator has
\* completed every file of the unit.
GenerateResolved(done) == done = FilesPerUnit

\* A variant that starts the list anew on every call.
PushRecordOnly(doc, record) ==
  [doc EXCEPT !.hasPartials = TRUE, !.partials = <<record>>]

\* Lines 61-66: the document with the record pushed.
PushRecord(doc, record) ==
  [doc EXCEPT !.hasPartials = TRUE,
              !.partials = Append(IF doc.hasPartials THEN doc.partials ELSE <<>>, record)]

RunInit ==
  /\ manifest \in InitialManifests
  /\ pc = [p \in Callers |-> "idle"]
  /\ args = [p \in Callers |-> NoArgs]
  /\ scfConfig = [p \in Callers |-> NoManifest]
  /\ filesDone = [p \in Callers |-> 0]
  /\ generateCalled = [p \in Callers |-> FALSE]
  /\ snapshot = [p \in Callers |-> manifest]
  /\ applied = manifest.partials
  /\ initialised = FALSE
  /\ started = 0

\* The one state the runs of the other parts keep.
RunIdle ==
  /\ manifest = NoManifest
  /\ pc = [p \in Callers |-> "idle"]
  /\ args = [p \in Callers |-> NoArgs]
  /\ scfConfig = [p \in Callers |-> NoManifest]
  /\ filesDone = [p \in Callers |-> 0]
  /\ generateCalled = [p \in Callers |-> FALSE]
  /\ snapshot = [p \in Callers |-> NoManifest]
  /\ applied = <<>>
  /\ initialised = FALSE
  /\ started = 0

Resting(p) == pc[p] \in {"idle", "done", "failed"}

\* Entering runPartial(partialPath, parameters): line 42.
Enter(p, a, file) ==
  /\ args' = [args EXCEPT ![p] = a]
  /\ snapshot' = [snapshot EXCEPT ![p] = file]
  /\ scfConfig' = [scfConfig EXCEPT ![p] = readJsonSync(file).doc]
  /\ pc' = [pc EXCEPT ![p] = AfterRead(readJsonSync(file))]
  /\ filesDone' = [filesDone EXCEPT ![p] = 0]
  /\ generateCalled' = [generateCalled EXCEPT ![p] = FALSE]

\* A caller calls runPartial.
StartRunPartial(p) ==
  /\ Resting(p)
  /\ started < MaxCalls
  /\ started' = started + 1
  /\ \E a \in Units : Enter(p, a, manifest)
  /\ UNCHANGED <<manifest, applied, initialised>>
  /\ UNCHANGED <<optVars, pipeVars>>

\* A caller calls init: line 29, up to the await of getTemplate.
StartInit(p) ==
  /\ Resting(p)
  /\ started < MaxCalls
  /\ started' = started + 1
  /\ \E ps \in Parameters : args' = [args EXCEPT ![p] = [partialPath |-> "_init", parameters |-> ps]]
  /\ snapshot' = [snapshot EXCEPT ![p] = manifest]
  /\ filesDone' = [filesDone EXCEPT ![p] = 0]
  /\ generateCalled' = [generateCalled EXCEPT ![p] = FALSE]
  /\ pc' = [pc EXCEPT ![p] = "init"]
  /\ UNCHANGED <<manifest, scfConfig, applied, initialised>>
  /\ UNCHANGED <<optVars, pipeVars>>

\* getTemplate rejects.
InitFail(p) ==
  /\ pc[p] = "init"
  /\ pc' = [pc EXCEPT ![p] = "failed"]
  /\ UNCHANGED <<manifest, args, scfConfig, filesDone, generateCalled, snapshot,
                 applied, initialised, started>>
  /\ UNCHANGED <<optVars, pipeVars>>

\* Lines 31-38: the manifest is written with no partials, and runPartial is
\* entered for _init.
InitWrite(p) ==
  /\ pc[p] = "init"
  /\ manifest' = writeJSONSync(ManifestFile("ok", "t", TRUE, <<>>))
  /\ applied' = <<>>
  /\ initialised' = TRUE
  /\ Enter(p, args[p], writeJSONSync(ManifestFile("ok", "t", TRUE, <<>>)))
  /\ UNCHANGED started
  /\ UNCHANGED <<optVars, pipeVars>>

\* Lines 44-59: the partial and the template are looked up and the
\* generator is started. scfConfig.template.name throws when the document
\* has no template; the lookups may reject.
ResolvePartial(p) ==
  /\ pc[p] = "read"
  /\ \/ /\ scfConfig[p].template # "none"
        /\ pc' = [pc EXCEPT ![p] = "generating"]
        /\ generateCalled' = [generateCalled EXCEPT ![p] = TRUE]
     \/ /\ pc' = [pc EXCEPT ![p] = "failed"]
        /\ UNCHANGED generateCalled
  /\ UNCHANGED <<manifest, args, scfConfig, filesDone, snapshot, applied, initialised, started>>
  /\ UNCHANGED <<optVars, pipeVars>>

\* The generator writes one more file of the unit.
GenerateFile(p) ==
  /\ pc[p] = "generating"
  /\ filesDone[p] < FilesPerUnit
  /\ filesDone' = [filesDone EXCEPT ![p] = @ + 1]
  /\ UNCHANGED <<manifest, pc, args, scfConfig, generateCalled, snapshot, applied,
                 initialised, started>>
  /\ UNCHANGED <<optVars, pipeVars>>

\* The generator fails on a file; the files it wrote stay.
GenerateFail(p) ==
  /\ pc[p] = "generating"
  /\ filesDone[p] < FilesPerUnit
  /\ pc' = [pc EXCEPT ![p] = "failed"]
  /\ UNCHANGED <<manifest, args, scfConfig, filesDone, generateCalled, snapshot, applied,
                 initialised, started>>
  /\ UNCHANGED <<optVars, pipeVars>>

\* Lines 61-68: the record is pushed on the call's copy and the copy is
\* written.
Commit(p) ==
  /\ pc[p] = "generating"
  /\ GenerateResolved(filesDone[p])
  /\ scfConfig' = [scfConfig EXCEPT
                     ![p] = PushRecord(@, Record(scfConfig[p].template, args[p]))]
  /\ manifest' = writeJSONSync(scfConfig'[p])
  /\ applied' = Append(applied, Record(snapshot[p].template, args[p]))
  /\ pc' = [pc EXCEPT ![p] = "done"]
  /\ UNCHANGED <<args, filesDone, generateCalled, snapshot, initialised, started>>
  /\ UNCHANGED <<optVars, pipeVars>>

\* One caller, one call after the other.
SeqNext ==
  \/ StartInit(1)
  \/ InitFail(1)
  \/ InitWrite(1)
  \/ StartRunPartial(1)
  \/ ResolvePartial(1)
  \/ GenerateFile(1)
  \/ GenerateFail(1)
  \/ Commit(1)

\* Callers whose runPartial calls overlap: a call is suspended at each await.
ConcNext ==
  \E p \in Callers :
    \/ StartRunPartial(p)
    \/ ResolvePartial(p)
    \/ GenerateFile(p)
    \/ GenerateFail(p)
    \/ Commit(p)

(***************************************************************************)
(* Specifications                                                          *)
(***************************************************************************)
\* Nothing is in progress; the target root holds no manifest.
Init == OptInit /\ PipeInit /\ RunIdle

\* Nothing is in progress; the target root holds any of the manifests.
InitWithManifest == OptInit /\ PipeInit /\ RunInit

SpecOptions == Init /\ [][OptNext]_vars

SpecPipeline == Init /\ [][PipeNext]_vars

SpecSeq == InitWithManifest /\ [][SeqNext]_vars

SpecConc == InitWithManifest /\ [][ConcNext]_vars

(***************************************************************************)
(* Properties of option resolution                                         *)
(***************************************************************************)
\* Line i of str lies in the content of a region the scanner found.
InsideRegion(str, i) ==
  /\ ~getRegions(str).error
  /\ \E n \in DOMAIN getRegions(str).regions :
       /\ getRegions(str).regions[n].contentStart <= i
       /\ getRegions(str).regions[n].contentEnd >= i

\* The directives of str that count: a JSON object after the marker, outside
\* every region.
Honoured(str) ==
  { i \in DOMAIN str :
      /\ str[i].kind = "option"
      /\ str[i].form \in {"json", "multiline"}
      /\ ~InsideRegion(str, i) }

FileDefines(str, k) == \E i \in Honoured(str) : k \in DOMAIN str[i].obj

\* The last honoured directive that defines k.
LastDefining(str, k) ==
  CHOOSE i \in Honoured(str) :
    /\ k \in DOMAIN str[i].obj
    /\ \A j \in Honoured(str) : k \in DOMAIN str[j].obj => j <= i

FolderDefines(file, k) ==
  file.exists /\ file.hasOptions /\ k \in DOMAIN file.options

\* The value the precedence rule gives key k.
ByPrecedence(k) ==
  IF FileDefines(body, k) THEN body[LastDefining(body, k)].obj[k]
  ELSE IF FolderDefines(folderFile, k) THEN folderFile.options[k]
  ELSE IF k \in DOMAIN overrides THEN overrides[k]
  ELSE Defaults[k]

\* C1: after the constructor, getFolderOptions and getConfigFromString every
\* key has the value of the highest layer that defines it, in the order
\* in-file directive > folder options > constructor override > default.
C1_Precedence ==
  optPc = "file" =>
    /\ DOMAIN heap[outcome.ref] = DOMAIN Defaults
    /\ \A k \in DOMAIN heap[outcome.ref] : heap[outcome.ref][k] = ByPrecedence(k)

\* C1 witness: one key defined by all four layers, with the directive's value
\* different from the folder's, the override's and the default.
C1_Witness ==
  /\ optPc = "file"
  /\ FileDefines(body, "appendStrategy")
  /\ FolderDefines(folderFile, "appendStrategy")
  /\ "appendStrategy" \in DOMAIN overrides
  /\ heap[outcome.ref]["appendStrategy"] = "appendIfExists"
  /\ folderFile.options["appendStrategy"] = "ignore"
  /\ overrides["appendStrategy"] = "replace"

\* What getFileOptions ends in for content str, as a value.
Resolved(this, str) ==
  LET r == getConfigFromString(this, str)
  IN  [threw |-> r.threw, error |-> r.error,
       options |-> IF r.threw THEN EmptyObj ELSE NewOptions(r.config)]

ResolvedInState ==
  [threw |-> outcome.status = "error", error |-> outcome.error,
   options |-> IF outcome.status = "ok" THEN heap[outcome.ref] ELSE EmptyObj]

Malformed(str, i) ==
  /\ str[i].kind = "option"
  /\ str[i].form \in {"unclosed", "invalid"}
  /\ ~getRegions(str).error
  /\ ~InsideRegion(str, i)

\* C6: resolving the options of a file with a malformed directive ends in an
\* error that names the file; it never resolves as if the directive were
\* absent.
C6_MalformedDirectiveRaises ==
  (outcome.status # "none" /\ \E i \in DOMAIN body : Malformed(body, i)) =>
    /\ outcome.status = "error"
    /\ outcome.error.file # "none"

\* The lines of str at the positions K, in order.
Restrict(str, K) ==
  LET idx == SelectSeq([i \in 1..Len(str) |-> i], LAMBDA i : i \in K)
  IN  [j \in 1..Len(idx) |-> str[idx[j]]]

\* C8: stripConfig keeps every line that is no directive and every directive
\* inside a region, and removes every directive getConfigFromString honours.
C8_StripOutsideRegionsOnly ==
  optPc = "stripped" =>
    \E K \in SUBSET DOMAIN body :
      /\ stripped = Restrict(body, K)
      /\ \A i \in DOMAIN body : body[i].kind # "option" => i \in K
      /\ \A i \in DOMAIN body : (body[i].kind = "option" /\ InsideRegion(body, i)) => i \in K
      /\ \A i \in Honoured(body) : i \notin K

\* C9: no step changes a field of an options object that exists, and
\* getFolderOptions, getConfigFromString and mergeFolderConfig return an
\* object that did not exist before.
C9_OptionsImmutable ==
  [][ /\ \A r \in DOMAIN heap : r \in DOMAIN heap' /\ heap'[r] = heap[r]
      /\ (optPc' \in {"folder", "merged"} /\ optPc' # optPc) =>
           (Len(heap') = Len(heap) + 1 /\ folderRef' = Len(heap'))
      /\ (optPc' = "file" /\ optPc # "file") =>
           (Len(heap') = Len(heap) + 1 /\ outcome'.ref = Len(heap')) ]_vars

\* C9 witness: both resolution steps returned an object that differs from
\* the one they were called on.
C9_Witness ==
  /\ optPc = "file"
  /\ heap[outcome.ref] # heap[folderRef]
  /\ heap[folderRef] # heap[optionsRef]

(***************************************************************************)
(* Properties of the pipeline                                              *)
(***************************************************************************)
\* t is s without the white space at its two ends.
IsTrimOf(t, s) ==
  /\ \E a \in 0..Len(s), b \in 0..Len(s) :
       /\ a + b <= Len(s)
       /\ t = SubSeq(s, a + 1, Len(s) - b)
       /\ \A i \in 1..a : s[i] \in Whitespace
       /\ \A i \in (Len(s) - b + 1)..Len(s) : s[i] \in Whitespace
  /\ t # <<>> => (t[1] \notin Whitespace /\ t[Len(t)] \notin Whitespace)

\* C5: the processors are called once each, in list order; the first gets
\* the caller's input and context, each later one the trimmed result and
\* the context of the one before it; the pipeline returns the trimmed
\* result of the last.
C5_PipelineOrder ==
  /\ \A i \in DOMAIN calls : calls[i].index = i /\ calls[i].kind = processors[i]
  /\ pipePc = "returned" =>
       /\ Len(calls) = Len(processors)
       /\ calls # <<>> => (calls[1].input = rawInput /\ calls[1].context = context)
       /\ \A i \in DOMAIN calls :
            LET r == process(processors[i], calls[i].context, calls[i].input)
            IN  IF i < Len(calls)
                THEN /\ IsTrimOf(calls[i + 1].input, r.result)
                     /\ calls[i + 1].context = r.context
                ELSE IsTrimOf(returned, r.result)

\* C5 witness: a pipeline of three stages returned, a stage's result had
\* white space to trim and a stage changed the context.
C5_Witness ==
  /\ pipePc = "returned"
  /\ Len(processors) = 3
  /\ generationContext # context
  /\ \E i \in DOMAIN calls :
       process(processors[i], calls[i].context, calls[i].input).result # trim(
         process(processors[i], calls[i].context, calls[i].input).result)
  /\ returned = <<"x", "x", "y">>

(***************************************************************************)
(* Properties of init and runPartial                                       *)
(***************************************************************************)
\* C3: runPartial appends its record only when the generator has completed
\* every file of the unit; a call that failed left the manifest as it was
\* when the call was entered.
C3_RecordOnlyAfterGenerate ==
  /\ pc[1] = "failed" => manifest = snapshot[1]
  /\ manifest # snapshot[1] =>
       /\ pc[1] = "done"
       /\ filesDone[1] = FilesPerUnit
       /\ Len(manifest.partials) = Len(snapshot[1].partials) + 1
  /\ pc[1] = "done" => manifest # snapshot[1]

\* C3 witness: the generator failed after it wrote a file, and the manifest
\* is the one the call found.
C3_Witness ==
  /\ pc[1] = "failed"
  /\ generateCalled[1]
  /\ filesDone[1] = 1
  /\ manifest.state = "ok"
  /\ manifest = snapshot[1]

\* C4: when runPartial calls that overlap have all completed, the manifest
\* holds the record of each of them.
C4_NoLostUpdate ==
  (\A p \in Callers : pc[p] = "done") =>
    /\ Len(manifest.partials) = Len(applied)
    /\ \A i \in DOMAIN applied : \E j \in DOMAIN manifest.partials :
         manifest.partials[j] = applied[i]

\* C7: a runPartial that found the manifest absent or unparsable has failed
\* without invoking the generator, with no file written and the manifest as
\* it was.
C7_ManifestErrorAborts ==
  (pc[1] \notin {"idle", "init"} /\ snapshot[1].state # "ok") =>
    /\ pc[1] = "failed"
    /\ ~generateCalled[1]
    /\ filesDone[1] = 0
    /\ manifest = snapshot[1]

\* C7 witness: runPartial was called on a root with an unparsable manifest.
C7_Witness ==
  /\ pc[1] = "failed"
  /\ args[1].partialPath = "a"
  /\ snapshot[1].state = "corrupt"

\* C10: the partials list is the list of the records of the calls that
\* completed, in call order, after the records the manifest held before (none
\* after init); the template entry stays.
C10_ManifestGrowth ==
  /\ manifest.state = "ok" =>
       /\ manifest.partials = applied
       /\ manifest.template = snapshot[1].template
  /\ initialised =>
       /\ manifest.state = "ok"
       /\ manifest.hasPartials
       /\ manifest.template = "t"
       /\ pc[1] = "done" => manifest.partials[Len(manifest.partials)] = Record("t", args[1])

\* C10 witness: init and then the same unit applied twice: three records, in
\* call order.
C10_Witness ==
  /\ initialised
  /\ pc[1] = "done"
  /\ Len(manifest.partials) = 3
  /\ manifest.partials[1].path = <<"t", "_init">>
  /\ manifest.partials[2] = Record("t", [partialPath |-> "a", parameters |-> "p1"])
  /\ manifest.partials[3] = manifest.partials[2]

====
